---------------------------- MODULE Spec2Model ----------------------------
(***************************************************************************)
(* Key generation of the Classic-McEliece KEM as implemented in            *)
(* kem/mceliece/mceliece348864/mceliece.go (byte-oriented builder) and     *)
(* kem/mceliece/mceliece6960119/pk_gen.go (bitsliced builder).             *)
(*                                                                         *)
(* The algorithms are transcribed loop by loop.  The parameter set is a    *)
(* scaled instance: the field is GF(2^6) instead of GF(2^12), the degree   *)
(* sysT is 4 instead of 64 and the code length sysN is 32 instead of 3488, *)
(* so that pkNRows = sysT*gfBits = 24 stays a multiple of 8 and below      *)
(* sysN <= 2^gfBits as in the source.  The machine word of the bitsliced   *)
(* builder is 16 bits wide instead of 64.  Bytes are 8 bits.               *)
(***************************************************************************)
EXTENDS Integers, Sequences, FiniteSets, TLC

VARIABLES run, xof, unm, mp, zm, pg, mode

vars == <<run, xof, unm, mp, zm, pg, mode>>

(***************************************************************************)
(* Parameters (mceliece.go:13-29), scaled.                                 *)
(***************************************************************************)
sysT == 4
gfBits == 6
sysN == 32
seedSize == 32

gfMask == 2^gfBits - 1
unusedBits == 16 - gfBits
condBytes == (2^(gfBits - 4)) * (2*gfBits - 1)
irrBytes == sysT * 2
pkNRows == sysT * gfBits
pkNCols == sysN - pkNRows
pkRowBytes == (pkNCols + 7) \div 8
PublicKeySize == pkNRows * pkRowBytes
PrivateKeySize == 32 + 8 + irrBytes + condBytes + (sysN \div 8)

(***************************************************************************)
(* The(S) is the element of the singleton S.  Operators below bind their   *)
(* arguments through a singleton set so that each argument is evaluated    *)
(* once.                                                                   *)
(***************************************************************************)
The(S) == CHOOSE v \in S : TRUE

(***************************************************************************)
(* Fold(Step, x, lo, hi) is the value of x after the loop                  *)
(*   for k := lo; k < hi; k++ { x = Step(x, k) }                           *)
(* The range is split in halves, the left half first, so that the          *)
(* evaluation nests to depth log2(hi - lo) and not hi - lo.                *)
(***************************************************************************)
RECURSIVE Fold(_, _, _, _)
Fold(Step(_, _), x, lo, hi) ==
  IF hi <= lo THEN x
  ELSE IF hi = lo + 1 THEN CHOOSE v \in { Step(y, lo) : y \in {x} } : TRUE
  ELSE CHOOSE v \in { Fold(Step, y, (lo + hi) \div 2, hi) :
                      y \in {Fold(Step, x, lo, (lo + hi) \div 2)} } : TRUE

(***************************************************************************)
(* Bit operations on non-negative integers: bit by bit on bytes, byte by   *)
(* byte on wider values.                                                   *)
(***************************************************************************)
Bit(x, k) == (x \div 2^k) % 2

Byte == 0..255

RECURSIVE XorBits(_, _)
XorBits(a, b) ==
  IF a = 0 THEN b
  ELSE IF b = 0 THEN a
  ELSE (((a % 2) + (b % 2)) % 2) + 2 * XorBits(a \div 2, b \div 2)

RECURSIVE AndBits(_, _)
AndBits(a, b) ==
  IF a = 0 \/ b = 0 THEN 0
  ELSE ((a % 2) * (b % 2)) + 2 * AndBits(a \div 2, b \div 2)

XorByte == [a \in Byte |-> [b \in Byte |-> XorBits(a, b)]]

AndByte == [a \in Byte |-> [b \in Byte |-> AndBits(a, b)]]

RECURSIVE Xor(_, _)
Xor(a, b) ==
  IF a = 0 THEN b
  ELSE IF b = 0 THEN a
  ELSE XorByte[a % 256][b % 256] + 256 * Xor(a \div 256, b \div 256)

RECURSIVE And(_, _)
And(a, b) ==
  IF a = 0 \/ b = 0 THEN 0
  ELSE AndByte[a % 256][b % 256] + 256 * And(a \div 256, b \div 256)

Or(a, b) == Xor(Xor(a, b), And(a, b))

Gf == 0..gfMask

XorTab == [a \in Gf |-> [b \in Gf |-> Xor(a, b)]]

(***************************************************************************)
(* Field arithmetic of math/gf4096, scaled to GF(2^6) = GF(2)[x]/(x^6+x+1).*)
(* Add is XOR; Mul is the carry-less product folded by the reduction       *)
(* polynomial, highest bit first; Inv(a) = a^(2^gfBits - 2), so Inv(0) = 0.*)
(***************************************************************************)
GfRed == 2 + 1

Add(a, b) == XorTab[a][b]

(* the XOR of a * 2^k over the bits k set in b *)
ClMul(a, b) ==
  Fold(LAMBDA p, k : IF Bit(b, k) = 1 THEN Xor(p, a * 2^k) ELSE p, 0, 0, gfBits)

(* the bits k, k - 1, ..., gfBits of x are folded down in this order *)
GfReduce(x, k) ==
  Fold(LAMBDA y, t : IF Bit(y, k - t) = 1
                       THEN Xor(y - 2^(k - t), GfRed * 2^(k - t - gfBits))
                       ELSE y,
       x, 0, k - gfBits + 1)

MulTab == [a \in Gf |-> [b \in Gf |-> GfReduce(ClMul(a, b), 2*gfBits - 2)]]

Mul(a, b) == MulTab[a][b]

(* a^2 * a^4 * ... * a^(2^n) *)
PowSquares(a, n) ==
  Fold(LAMBDA st, i : The({ [sq |-> s2, acc |-> Mul(st.acc, s2)] :
                            s2 \in {Mul(st.sq, st.sq)} }),
       [sq |-> a, acc |-> 1], 0, n).acc

InvTab == [a \in Gf |-> PowSquares(a, gfBits - 1)]

Inv(a) == InvTab[a]

(***************************************************************************)
(* mceliece.go:109-114.  uint32(element) - 1 is computed on two 16-bit     *)
(* halves (the borrow runs into the upper half); >> 19 keeps the upper     *)
(* half shifted by 3; uint16() truncates.                                  *)
(***************************************************************************)
isZeroMask(element) ==
  LET lo == (element - 1) % 2^16
      hi == (0 - (IF element % 2^16 = 0 THEN 1 ELSE 0)) % 2^16
      t  == hi \div 2^(19 - 16)
  IN t % 2^16

(***************************************************************************)
(* Byte buffers and arrays are functions on 0..n-1.                        *)
(***************************************************************************)
Zeros(n) == [i \in 0..(n - 1) |-> 0]

Len0(a) == Cardinality(DOMAIN a)

Slice(a, lo, n) == [i \in 0..(n - 1) |-> a[lo + i]]

CopyAt(dst, off, src) ==
  [i \in DOMAIN dst |->
     IF i >= off /\ i < off + Len0(src) THEN src[i - off] ELSE dst[i]]

(* mceliece.go:334-337 *)
storeGf(a) == [i \in 0..1 |-> IF i = 0 THEN a % 256 ELSE (a \div 256) % 256]

(* mceliece.go:339-344 *)
loadGf(src) == And(src[1] * 256 + src[0], gfMask)

(* mceliece.go:346-353 *)
load4(in) == ((in[3] * 256 + in[2]) * 256 + in[1]) * 256 + in[0]

(* mceliece.go:375-382: swap bytes, nibbles, bit pairs, bits of the 16-bit *)
(* value, then drop the unused low bits.                                   *)
bitRev(a) ==
  LET a1 == Or((And(a, 255) * 2^8) % 2^16, And(a, 65280) \div 2^8)
      a2 == Or((And(a1, 3855) * 2^4) % 2^16, And(a1, 61680) \div 2^4)
      a3 == Or((And(a2, 13107) * 2^2) % 2^16, And(a2, 52428) \div 2^2)
      a4 == Or((And(a3, 21845) * 2) % 2^16, And(a3, 43690) \div 2)
  IN a4 \div 2^unusedBits

bitRevTab == [a \in Gf |-> bitRev(a)]

(***************************************************************************)
(* mceliece.go:168-187: product in GF(2^gfBits)[y]/(y^sysT + y^3 + y + 2). *)
(***************************************************************************)
Convolve(a, b) ==
  LET Acc(k) ==
        Fold(LAMBDA acc, i : IF i <= k /\ k - i < sysT
                               THEN Add(acc, Mul(a[i], b[k - i]))
                               ELSE acc,
             0, 0, sysT)
  IN [k \in 0..(2*sysT - 2) |-> Acc(k)]

(* mceliece.go:179-181 *)
PolyReduceStep(product, i) ==
  LET p1 == [product EXCEPT ![i - sysT + 3] = Add(@, product[i])]
      p2 == [p1 EXCEPT ![i - sysT + 1] = Add(@, p1[i])]
  IN [p2 EXCEPT ![i - sysT] = Add(@, Mul(p2[i], 2))]

(* mceliece.go:177-182: the coefficients i, i - 1, ..., sysT in this order *)
PolyReduce(product0, i) ==
  Fold(LAMBDA product, t : PolyReduceStep(product, i - t), product0, 0, i - sysT + 1)

polyMul(a0, b0) ==
  The({ Slice(PolyReduce(Convolve(a, b), (sysT - 1) * 2), 0, sysT) :
        a \in {a0}, b \in {b0} })

(***************************************************************************)
(* mceliece.go:116-166.  mat[c][j]: c in 0..sysT is the power of f, j in   *)
(* 0..sysT-1 the coordinate.                                               *)
(***************************************************************************)
MatPowers(mat0, f, i) ==
  Fold(LAMBDA mat, c : [mat EXCEPT ![c] = polyMul(mat[c - 1], f)], mat0, i, sysT + 1)

MinPolyMatrix(f0) ==
  The({ MatPowers([c \in 0..sysT |->
                    IF c = 0 THEN [i \in 0..(sysT - 1) |-> IF i = 0 THEN 1 ELSE 0]
                    ELSE IF c = 1 THEN f
                    ELSE Zeros(sysT)], f, 2) : f \in {f0} })

(* the repair starting below the pivot row *)
RepairFirstRowBelow(j) == j + 1

(* mceliece.go:137: the first row the pivot repair touches *)
RepairFirstRow(j) == j

(* mceliece.go:134-139; with full, the columns are merged on every row *)
RepairStep(mat, j, k, full) ==
  The({ [c \in 0..sysT |->
          IF c >= lo
            THEN [mat[c] EXCEPT ![j] = Xor(@, And(mat[c][k], mask))]
            ELSE mat[c]] :
        mask \in {isZeroMask(mat[j][j])},
        lo \in {IF full THEN 0 ELSE RepairFirstRow(j)} })

(* mceliece.go:133-140 *)
Repair(mat0, j, k, full) ==
  Fold(LAMBDA mat, k2 : RepairStep(mat, j, k2, full), mat0, k, sysT)

(* mceliece.go:146-149 *)
Normalise(mat0, j) ==
  The({ [c \in 0..sysT |-> [mat[c] EXCEPT ![j] = Mul(@, inv)]] :
        mat \in {mat0}, inv \in {Inv(mat0[j][j])} })

(* mceliece.go:151-158 *)
ClearOthers(mat0, j) ==
  The({ [c \in 0..sysT |->
          [k \in 0..(sysT - 1) |->
             IF k # j THEN Xor(mat[c][k], Mul(mat[c][j], mat[j][k]))
             ELSE mat[c][k]]] : mat \in {mat0} })

(* mceliece.go:133-158: one column; nothing is done once the function has *)
(* returned false                                                          *)
MinPolyColumn(st, j, full) ==
  IF ~st.ok THEN st
  ELSE The({ IF m1[j][j] = 0 THEN [ok |-> FALSE, mat |-> m1]
             ELSE [ok |-> TRUE, mat |-> ClearOthers(Normalise(m1, j), j)] :
             m1 \in {Repair(st.mat, j, j + 1, full)} })

(* mceliece.go:132-159 *)
MinPolyColumns(mat0, j, full) ==
  Fold(LAMBDA st, j2 : MinPolyColumn(st, j2, full), [ok |-> TRUE, mat |-> mat0], j, sysT)

minimalPolynomialWith(out, f, full) ==
  The({ IF res.ok THEN [ok |-> TRUE, out |-> res.mat[sysT]]
        ELSE [ok |-> FALSE, out |-> out] :
        res \in {MinPolyColumns(MinPolyMatrix(f), 0, full)} })

minimalPolynomial(out, f) == minimalPolynomialWith(out, f, FALSE)

(***************************************************************************)
(* Bytes and 64-bit sort keys.  A key is kept as its two parts            *)
(* hi = key >> 31 and lo = key & (2^31 - 1); the numeric order of keys is  *)
(* the lexicographic order of (hi, lo).                                    *)
(***************************************************************************)
(* -mask on a byte holding 0 or 1 *)
NegByte(bit) == (0 - bit) % 2^8

Key(hi, lo) == [hi |-> hi, lo |-> lo]

KeyLess(a, b) == a.hi < b.hi \/ (a.hi = b.hi /\ a.lo < b.lo)

(* kem/mceliece/internal UInt64Sort: ascending numeric order *)
UInt64Sort(buf0) ==
  The({ The({ [r \in DOMAIN buf |-> buf[CHOOSE i \in DOMAIN buf : pos[i] = r]] :
              pos \in {[i \in DOMAIN buf |->
                          Cardinality({j \in DOMAIN buf :
                             \/ KeyLess(buf[j], buf[i])
                             \/ (buf[j] = buf[i] /\ j < i)})]} }) :
        buf \in {buf0} })

(***************************************************************************)
(* pkGen of mceliece348864 (mceliece.go:189-304), stage by stage.          *)
(***************************************************************************)
(* mceliece.go:197-201 *)
LoadG(sk) ==
  [i \in 0..sysT |-> IF i = sysT THEN 1 ELSE loadGf(Slice(sk, 2 * i, 2))]

(* mceliece.go:203-207: buf[i] = perm[i] << 31 | i *)
PermKeys(perm) == [i \in 0..(2^gfBits - 1) |-> Key(perm[i], i)]

PriorityAbove32(key) == key.hi \div 2

(* mceliece.go:212: buf[i] >> 31 *)
Priority(key) == key.hi

(* mceliece.go:211-215 *)
HasDuplicate(buf) ==
  \E i \in 1..(2^gfBits - 1) : Priority(buf[i - 1]) = Priority(buf[i])

(* mceliece.go:217-219 *)
PiOf(buf) == [i \in 0..(2^gfBits - 1) |-> And(buf[i].lo, gfMask)]

(* mceliece.go:221-223 *)
Support(pi, n) == [i \in 0..(n - 1) |-> bitRevTab[pi[i]]]

(* mceliece.go:306-313 *)
eval(f, a) ==
  LET RECURSIVE Horner(_, _)
      Horner(r, i) == IF i < 0 THEN r ELSE Horner(Add(Mul(r, a), f[i]), i - 1)
  IN Horner(f[sysT], sysT - 1)

(* mceliece.go:315-319 *)
root(f, l) == [i \in DOMAIN l |-> eval(f, l[i])]

(* mceliece.go:228-230 *)
Inverses(g, l) == The({ [i \in DOMAIN l |-> Inv(r[i])] : r \in {root(g, l)} })

(* mceliece.go:255-257, applied i times: inv[j] * L[j]^i *)
RECURSIVE ScaledInverses(_, _, _)
ScaledInverses(inv0, l, i) ==
  IF i = 0 THEN inv0
  ELSE The({ [j \in DOMAIN l |-> Mul(inv[j], l[j])] :
             inv \in {ScaledInverses(inv0, l, i - 1)} })

(* mceliece.go:235-249: bit k of inv[8c+7..8c], packed into one byte *)
PackByte(inv, c, k) ==
  Fold(LAMBDA b, q : b + Bit(inv[8 * c + q], k) * 2^q, 0, 0, 8)

(* mceliece.go:232-258 *)
FillMatrix(inv0, l) ==
  The({ [row \in 0..(pkNRows - 1) |->
          [c \in 0..((Len0(l) \div 8) - 1) |->
             PackByte(invs[row \div gfBits], c, row % gfBits)]] :
        invs \in {[i \in 0..(sysT - 1) |-> ScaledInverses(inv0, l, i)]} })

(* mceliece.go:269-278: rows below are added to the pivot row when their  *)
(* pivot bits differ                                                       *)
RepairPivotRowStep(r, mat, i, j, k) ==
  The({ [c \in DOMAIN r |-> XorByte[r[c]][AndByte[mat[k][c]][mask]]] :
        mask \in {NegByte(Bit(XorByte[r[i]][mat[k][i]], j))} })

RepairPivotRow(r0, mat, i, j, k) ==
  Fold(LAMBDA r, k2 : RepairPivotRowStep(r, mat, i, j, k2), r0, k, pkNRows)

ClearColumnBelow(mat, row, i, j) ==
  [k \in DOMAIN mat |->
     IF k > row
       THEN The({ [c \in DOMAIN mat[k] |-> XorByte[mat[k][c]][AndByte[mat[row][c]][mask]]] :
                  mask \in {NegByte(Bit(mat[k][i], j))} })
       ELSE mat[k]]

(* mceliece.go:285-295 *)
ClearColumn(mat, row, i, j) ==
  [k \in DOMAIN mat |->
     IF k # row
       THEN The({ [c \in DOMAIN mat[k] |-> XorByte[mat[k][c]][AndByte[mat[row][c]][mask]]] :
                  mask \in {NegByte(Bit(mat[k][i], j))} })
       ELSE mat[k]]

NotSystematicUnchecked(mat, row) == FALSE

(* mceliece.go:281-283 *)
NotSystematic(mat, row) == Bit(mat[row][row \div 8], row % 8) = 0

(* mceliece.go:262-296: one pivot; nothing is done once the function has   *)
(* returned false                                                          *)
GaussJordanRow(st, row) ==
  IF ~st.ok THEN st
  ELSE The({ IF NotSystematic(m1, row)
               THEN [ok |-> FALSE, mat |-> m1]
               ELSE [ok |-> TRUE, mat |-> ClearColumn(m1, row, row \div 8, row % 8)] :
             m1 \in {[st.mat EXCEPT ![row] =
                        RepairPivotRow(st.mat[row], st.mat, row \div 8, row % 8,
                                       row + 1)]} })

(* mceliece.go:260-297 *)
GaussJordan(mat0, row) ==
  The({ Fold(GaussJordanRow, [ok |-> TRUE, mat |-> mat], row, pkNRows) :
        mat \in {mat0} })

(* mceliece.go:299-301 *)
SerializeRows(mat) ==
  [b \in 0..(PublicKeySize - 1) |->
     mat[b \div pkRowBytes][(pkNRows \div 8) + (b % pkRowBytes)]]

(* mceliece.go:189-304; pk and pi are the caller's arrays *)
pkGen(pk, sk, perm, pi) ==
  The({ IF HasDuplicate(buf) THEN [ok |-> FALSE, pk |-> pk, pi |-> pi]
        ELSE The({ The({ IF res.ok
                           THEN [ok |-> TRUE, pk |-> SerializeRows(res.mat), pi |-> pi1]
                           ELSE [ok |-> FALSE, pk |-> pk, pi |-> pi1] :
                         res \in {GaussJordan(
                                    FillMatrix(Inverses(LoadG(sk), Support(pi1, sysN)),
                                               Support(pi1, sysN)), 0)} }) :
                   pi1 \in {PiOf(buf)} }) :
        buf \in {UInt64Sort(PermKeys(perm))} })

(***************************************************************************)
(* pkGen of mceliece6960119 (pk_gen.go:83-266), stage by stage.  The       *)
(* scaled instance shares gfBits and sysT; its code length sysNVec = 45    *)
(* and the 16-bit word keep pkNRows % WordBits, pkNCols % 8 and            *)
(* pkRowBytes % WordBytes nonzero, as 1547 % 64, 5413 % 8 and 677 % 8 are. *)
(* prod and consts are kept lane by lane (one field element per column);   *)
(* PackWord is the bitsliced word the source holds.                        *)
(***************************************************************************)
WordBits == 16
sysNVec == 45

WordBytes == WordBits \div 8
nblocksH == (sysNVec + WordBits - 1) \div WordBits
nblocksI == (pkNRows + WordBits - 1) \div WordBits
blockIdx == nblocksI - 1
tail == pkNRows % WordBits
pkNColsVec == sysNVec - pkNRows
pkRowBytesVec == (pkNColsVec + 7) \div 8
PublicKeySizeVec == pkNRows * pkRowBytesVec

XorWord(a, b) == Xor(a, b)

AndWord(a, b) == And(a, b)

(* -mask on a word holding 0 or 1 *)
NegWord(bit) == (0 - bit) % 2^WordBits

(* pk_gen.go:102-117: the inverses 1/g(a) for every field element a, in    *)
(* bit-reversed order (irrLoad, fft, vecMul, vecInv, deBitSlicing)         *)
VecInverses(g) == [i \in 0..(2^gfBits - 1) |-> Inv(eval(g, bitRevTab[i]))]

(* pk_gen.go:118-122: list[i] = inverse << gfBits | i | perm[i] << 31 *)
VecKeys(inv, perm) ==
  [i \in 0..(2^gfBits - 1) |-> Key(perm[i], inv[i] * 2^gfBits + i)]

ReverseBits(x) ==
  LET RECURSIVE Rev(_)
      Rev(j) == IF j >= gfBits THEN 0
                ELSE Bit(x, j) * 2^(gfBits - 1 - j) + Rev(j + 1)
  IN Rev(0)

(* pk_gen.go:39-44: out0[i][gfBits-1-j] takes bit j of the key *)
VecConsts(list) == [c \in DOMAIN list |-> ReverseBits(list[c].lo % 2^gfBits)]

(* pk_gen.go:32-37: out1[i][j] takes bit j+gfBits of the key *)
VecProd(list) == [c \in DOMAIN list |-> (list[c].lo \div 2^gfBits) % 2^gfBits]

(* pk_gen.go:144 and 221, applied i times: prod * consts^i, lane by lane *)
RECURSIVE VecScaled(_, _, _)
VecScaled(prod0, consts, i) ==
  IF i = 0 THEN prod0
  ELSE The({ [c \in DOMAIN consts |-> Mul(prod[c], consts[c])] :
             prod \in {VecScaled(prod0, consts, i - 1)} })

(* bit k of the WordBits lanes of block blk *)
PackWord(elems, blk, k) ==
  Fold(LAMBDA w, r : w + Bit(elems[blk * WordBits + r], k) * 2^r, 0, 0, WordBits)

(* pk_gen.go:136-149 (blocks 0..nblocksI-1) and 213-226 (the others) *)
VecFillBlocks(mat, prod, consts, lo, hi) ==
  The({ [row \in 0..(pkNRows - 1) |->
          [j \in 0..(nblocksH - 1) |->
             IF j >= lo /\ j < hi
               THEN PackWord(scaled[row \div gfBits], j, row % gfBits)
               ELSE mat[row][j]]] :
        scaled \in {[i \in 0..(sysT - 1) |-> VecScaled(prod, consts, i)]} })

ZeroMatrixVec == [row \in 0..(pkNRows - 1) |-> Zeros(nblocksH)]

(* pk_gen.go:153-161 *)
OpsIdentity ==
  [i \in 0..(pkNRows - 1) |->
     [c \in 0..(nblocksI - 1) |-> IF c = i \div WordBits THEN 2^(i % WordBits) ELSE 0]]

(* pk_gen.go:163-166 *)
SaveColumn(mat) == [i \in 0..(pkNRows - 1) |-> mat[i][blockIdx]]

(* row ^= other & mask on the blocks 0..nblocksI-1 *)
XorBlocks(r, other, mask) ==
  [c \in DOMAIN r |->
     IF c < nblocksI THEN XorWord(r[c], AndWord(other[c], mask)) ELSE r[c]]

(* pk_gen.go:172-181: rows below are added while the pivot bit is 0 *)
VecRepairStep(cur, mat, ops, i, j, k) ==
  The({ [m |-> XorBlocks(cur.m, mat[k], mask),
         o |-> XorBlocks(cur.o, ops[k], mask)] :
        mask \in {(Bit(cur.m[i], j) - 1) % 2^WordBits} })

VecRepair(cur0, mat, ops, i, j, k) ==
  Fold(LAMBDA cur, k2 : VecRepairStep(cur, mat, ops, i, j, k2), cur0, k, pkNRows)

(* pk_gen.go:187-196 *)
VecClearBelow(mo0, row, i, j) ==
  The({ [m |-> [k \in DOMAIN mo.m |->
                  IF k > row
                    THEN XorBlocks(mo.m[k], mo.m[row], NegWord(Bit(mo.m[k][i], j)))
                    ELSE mo.m[k]],
         o |-> [k \in DOMAIN mo.o |->
                  IF k > row
                    THEN XorBlocks(mo.o[k], mo.o[row], NegWord(Bit(mo.m[k][i], j)))
                    ELSE mo.o[k]]] :
        mo \in {mo0} })

(* pk_gen.go:169-196: one pivot; nothing is done once the function has    *)
(* returned false                                                          *)
VecForwardRow(st, row) ==
  IF ~st.ok THEN st
  ELSE The({ IF Bit(cur.m[row \div WordBits], row % WordBits) = 0
               THEN [ok |-> FALSE,
                     mat |-> [st.mat EXCEPT ![row] = cur.m],
                     ops |-> [st.ops EXCEPT ![row] = cur.o]]
               ELSE The({ [ok |-> TRUE, mat |-> mo.m, ops |-> mo.o] :
                          mo \in {VecClearBelow(
                                    [m |-> [st.mat EXCEPT ![row] = cur.m],
                                     o |-> [st.ops EXCEPT ![row] = cur.o]],
                                    row, row \div WordBits, row % WordBits)} }) :
             cur \in {VecRepair([m |-> st.mat[row], o |-> st.ops[row]], st.mat, st.ops,
                                row \div WordBits, row % WordBits, row + 1)} })

(* pk_gen.go:168-197 *)
VecForward(mat0, ops0, row) ==
  The({ Fold(VecForwardRow, [ok |-> TRUE, mat |-> mat, ops |-> ops], row, pkNRows) :
        mat \in {mat0}, ops \in {ops0} })

(* pk_gen.go:201-209: the rows above row take the pivot row's operations  *)
VecBackSubstituteRow(mat, ops, row) ==
  [k \in DOMAIN ops |->
     IF k < row
       THEN XorBlocks(ops[k], ops[row],
                      NegWord(Bit(mat[k][row \div WordBits], row % WordBits)))
       ELSE ops[k]]

(* pk_gen.go:199-210: the rows row, row - 1, ..., 0 in this order *)
VecBackSubstitute(mat0, ops0, row) ==
  The({ Fold(LAMBDA ops, t : VecBackSubstituteRow(mat, ops, row - t), ops0, 0, row + 1) :
        mat \in {mat0} })

RestoreColumnSkipped(mat, column) == mat

(* pk_gen.go:228-230 *)
RestoreColumn(mat, column) ==
  [i \in DOMAIN mat |-> [mat[i] EXCEPT ![blockIdx] = column[i]]]

(* pk_gen.go:234-246 *)
ApplyOps(ops, mat, row) ==
  LET Acc(k) ==
        Fold(LAMBDA acc, c :
               XorWord(acc, AndWord(mat[c][k],
                                    NegWord(Bit(ops[row][c \div WordBits], c % WordBits)))),
             0, 0, pkNRows)
  IN [k \in 0..(nblocksH - 1) |-> IF k >= blockIdx THEN Acc(k) ELSE 0]

(* pk_gen.go:9-13 and mceliece.go:355-364: byte j of the word *)
WordByte(word, j) == (word \div 2^(8 * j)) % 256

(* pk_gen.go:248-263: the bytes of one public-key row *)
SerializeVecRow(oneRow) ==
  LET full == nblocksH - 1 - blockIdx
      rest == pkRowBytesVec % WordBytes
      Shifted(k) == (oneRow[k] \div 2^tail)
                    + ((oneRow[k + 1] * 2^(WordBits - tail)) % 2^WordBits)
      last == oneRow[nblocksH - 1] \div 2^tail
  IN [b \in 0..(full * WordBytes + rest - 1) |->
        IF b < full * WordBytes
          THEN WordByte(Shifted(blockIdx + (b \div WordBytes)), b % WordBytes)
          ELSE IF b - full * WordBytes = rest - 1
            THEN AndByte[WordByte(last, b - full * WordBytes)][2^(pkNColsVec % 8) - 1]
            ELSE WordByte(last, b - full * WordBytes)]

(* pk_gen.go:232-264 *)
SerializeVec(ops, mat) ==
  The({ [b \in 0..(PublicKeySizeVec - 1) |-> rows[b \div pkRowBytesVec][b % pkRowBytesVec]] :
        rows \in {[row \in 0..(pkNRows - 1) |->
                     The({ SerializeVecRow(oneRow) :
                           oneRow \in {ApplyOps(ops, mat, row)} })]} })

(***************************************************************************)
(* Specification SpecPoly: minimalPolynomial and isZeroMask applied to     *)
(* inputs drawn from bounded sets.                                         *)
(***************************************************************************)
MaxCoef == 4

PolyInputs == [0..(sysT - 1) -> 0..MaxCoef]

MaskInputs == 0..(2^16 - 1)

IdleRun ==
  [pc |-> "idle", calls |-> 0, entropy |-> <<>>, seed |-> <<>>, r |-> <<>>,
   f |-> <<>>, irr |-> <<>>, perm |-> <<>>, pi |-> <<>>, pk |-> <<>>, sk |-> <<>>,
   attempts |-> 0, fed |-> <<>>, rejected |-> <<>>, first |-> <<>>]

NilKey == [nil |-> TRUE, bytes |-> <<>>]

IdleUnm ==
  [pc |-> "idle", what |-> "none", buf |-> <<>>, key |-> NilKey, err |-> "nil",
   out |-> <<>>]

IdleMp == [pc |-> "idle", f |-> Zeros(sysT), out |-> Zeros(sysT), ok |-> FALSE]

IdleZm == [pc |-> "idle", a |-> 0, mask |-> 0]

IdlePg == [pc |-> "idle"]

InitPoly ==
  /\ run = IdleRun /\ xof = <<>> /\ unm = IdleUnm /\ pg = IdlePg
  /\ \/ /\ mode = "poly"
        /\ mp \in {[IdleMp EXCEPT !.pc = "call", !.f = f] : f \in PolyInputs}
        /\ zm = IdleZm
     \/ /\ mode = "mask"
        /\ mp = IdleMp
        /\ zm \in {[IdleZm EXCEPT !.pc = "call", !.a = a] : a \in MaskInputs}

MinimalPolynomialCall ==
  /\ mp.pc = "call"
  /\ LET res == minimalPolynomial(mp.out, mp.f)
     IN mp' = [mp EXCEPT !.pc = "done", !.ok = res.ok, !.out = res.out]
  /\ UNCHANGED <<run, xof, unm, zm, pg, mode>>

IsZeroMaskCall ==
  /\ zm.pc = "call"
  /\ zm' = [zm EXCEPT !.pc = "done", !.mask = isZeroMask(zm.a)]
  /\ UNCHANGED <<run, xof, unm, mp, pg, mode>>

NextPoly == MinimalPolynomialCall \/ IsZeroMaskCall

SpecPoly == InitPoly /\ [][NextPoly]_vars

(***************************************************************************)
(* Specification SpecPk: one call of pkGen per behaviour, by either        *)
(* builder, on an irreducible-polynomial field irr and a permutation draw  *)
(* perm taken from bounded families.  The stages are the phases of the     *)
(* function body in order; a failing phase returns false at once.          *)
(***************************************************************************)
MaxC0 == 4
MaxMult == 5

PermModuli == {61, 67}

(* irr holds sysT coefficients of 2 bytes each (mceliece.go:81-83) *)
IrrOf(coeffs) == [b \in 0..(irrBytes - 1) |-> storeGf(coeffs[b \div 2])[b % 2]]

IrrInputs ==
  { IrrOf([i \in 0..(sysT - 1) |-> IF i = 0 THEN c0 ELSE sysT - i]) : c0 \in 0..MaxC0 }

PermInputs ==
  { [i \in 0..(2^gfBits - 1) |-> (mult * i + 5) % md] :
      mult \in 1..MaxMult, md \in PermModuli }

PkBytesOf(builder) == IF builder = "byte" THEN PublicKeySize ELSE PublicKeySizeVec

InitPk ==
  /\ mode = "pk"
  /\ run = IdleRun /\ xof = <<>> /\ unm = IdleUnm /\ mp = IdleMp /\ zm = IdleZm
  /\ \E builder \in {"byte", "vec"}, irr \in IrrInputs, perm \in PermInputs :
       pg = [pc |-> "start", builder |-> builder, irr |-> irr, perm |-> perm,
             ok |-> FALSE, why |-> "running", list |-> <<>>,
             pi |-> Zeros(2^gfBits), h |-> <<>>, mat |-> <<>>, ops |-> <<>>,
             column |-> <<>>, pk |-> Zeros(PkBytesOf(builder))]

PkIdle == UNCHANGED <<run, xof, unm, mp, zm, mode>>

PkReturn(ok, why) == [pg EXCEPT !.pc = "done", !.ok = ok, !.why = why]

(* mceliece.go:203-219 *)
PkSort ==
  /\ mode = "pk" /\ pg.pc = "start" /\ pg.builder = "byte"
  /\ \E buf \in {UInt64Sort(PermKeys(pg.perm))} :
       pg' = IF HasDuplicate(buf)
                THEN PkReturn(FALSE, "duplicate")
                ELSE [pg EXCEPT !.pc = "sorted", !.list = buf, !.pi = PiOf(buf)]
  /\ PkIdle

(* mceliece.go:221-258 *)
PkFill ==
  /\ mode = "pk" /\ pg.pc = "sorted" /\ pg.builder = "byte"
  /\ \E l \in {Support(pg.pi, sysN)}, g \in {LoadG(pg.irr)} :
       \E mat \in {FillMatrix(Inverses(g, l), l)} :
         pg' = [pg EXCEPT !.pc = "filled", !.h = mat, !.mat = mat]
  /\ PkIdle

(* mceliece.go:260-297 *)
PkEliminate ==
  /\ mode = "pk" /\ pg.pc = "filled" /\ pg.builder = "byte"
  /\ \E res \in {GaussJordan(pg.mat, 0)} :
       pg' = IF res.ok
                THEN [pg EXCEPT !.pc = "eliminated", !.mat = res.mat]
                ELSE [PkReturn(FALSE, "notsystematic") EXCEPT !.mat = res.mat]
  /\ PkIdle

(* mceliece.go:299-303 *)
PkSerialize ==
  /\ mode = "pk" /\ pg.pc = "eliminated" /\ pg.builder = "byte"
  /\ pg' = [PkReturn(TRUE, "ok") EXCEPT !.pk = SerializeRows(pg.mat)]
  /\ PkIdle

(* pk_gen.go:102-134 *)
VecSort ==
  /\ mode = "pk" /\ pg.pc = "start" /\ pg.builder = "vec"
  /\ \E g \in {LoadG(pg.irr)} :
     \E inv \in {VecInverses(g)} :
     \E list \in {UInt64Sort(VecKeys(inv, pg.perm))} :
       pg' = IF HasDuplicate(list)
                THEN PkReturn(FALSE, "duplicate")
                ELSE [pg EXCEPT !.pc = "sorted", !.list = list, !.pi = PiOf(list)]
  /\ PkIdle

(* pk_gen.go:136-166 *)
VecFill ==
  /\ mode = "pk" /\ pg.pc = "sorted" /\ pg.builder = "vec"
  /\ \E prod \in {VecProd(pg.list)}, consts \in {VecConsts(pg.list)} :
     \E mat \in {VecFillBlocks(ZeroMatrixVec, prod, consts, 0, nblocksI)} :
       pg' = [pg EXCEPT !.pc = "filled", !.h = mat, !.mat = mat,
                        !.ops = OpsIdentity, !.column = SaveColumn(mat)]
  /\ PkIdle

(* pk_gen.go:168-197 *)
VecEliminate ==
  /\ mode = "pk" /\ pg.pc = "filled" /\ pg.builder = "vec"
  /\ \E res \in {VecForward(pg.mat, pg.ops, 0)} :
       pg' = IF res.ok
                THEN [pg EXCEPT !.pc = "forward", !.mat = res.mat, !.ops = res.ops]
                ELSE [PkReturn(FALSE, "notsystematic") EXCEPT
                        !.mat = res.mat, !.ops = res.ops]
  /\ PkIdle

(* pk_gen.go:199-210 *)
VecBack ==
  /\ mode = "pk" /\ pg.pc = "forward" /\ pg.builder = "vec"
  /\ pg' = [pg EXCEPT !.pc = "back",
                      !.ops = VecBackSubstitute(pg.mat, pg.ops, pkNRows - 1)]
  /\ PkIdle

(* pk_gen.go:212-230 *)
VecRefill ==
  /\ mode = "pk" /\ pg.pc = "back" /\ pg.builder = "vec"
  /\ \E prod \in {VecProd(pg.list)}, consts \in {VecConsts(pg.list)} :
     \E mat \in {VecFillBlocks(pg.mat, prod, consts, nblocksI, nblocksH)} :
       pg' = [pg EXCEPT !.pc = "refilled", !.mat = RestoreColumn(mat, pg.column)]
  /\ PkIdle

(* pk_gen.go:232-265 *)
VecSerialize ==
  /\ mode = "pk" /\ pg.pc = "refilled" /\ pg.builder = "vec"
  /\ \E pk \in {SerializeVec(pg.ops, pg.mat)} :
       pg' = [PkReturn(TRUE, "ok") EXCEPT !.pk = pk]
  /\ PkIdle

NextPk ==
  \/ PkSort \/ PkFill \/ PkEliminate \/ PkSerialize
  \/ VecSort \/ VecFill \/ VecEliminate \/ VecBack \/ VecRefill \/ VecSerialize

SpecPk == InitPk /\ [][NextPk]_vars

(***************************************************************************)
(* deriveKeyPair (mceliece.go:41-107) and the scheme's entry points.       *)
(*                                                                         *)
(* shake256 and ControlBitsFromPermutation are collaborators outside the   *)
(* package.  shake256 is a fixed function of its input: xof, chosen once   *)
(* per behaviour, gives for each seed of the chain the draw its expansion  *)
(* buffer holds (candidate f, permutation words), so that every mix of     *)
(* rejected and accepted attempts occurs.  A 64-bit word is kept as four   *)
(* 16-bit limbs, least significant first.                                  *)
(***************************************************************************)
NumSeeds == 3
MaxAttempts == 4
MaxFill == 1

irrPolys == (sysN \div 8) + (2^gfBits) * 4
seedIndex == (sysN \div 8) + (2^gfBits) * 4 + sysT * 2
permIndex == sysN \div 8
sBaseBeforeControlBits == 32 + 8 + irrBytes

(* mceliece.go:46 *)
sBase == 32 + 8 + irrBytes + condBytes

rLen == (sysN \div 8) + (2^gfBits) * 4 + sysT * 2 + 32

(* mceliece.go:61: pivots := uint64(0xFFFFFFFF) *)
pivots == [j \in 0..3 |-> IF j < 2 THEN 2^16 - 1 ELSE 0]

(* mceliece.go:355-364 *)
store8(in) == [j \in 0..7 |-> (in[j \div 2] \div 2^(8 * (j % 2))) % 256]

EntropyOf(k, n) == [i \in 0..(n - 1) |-> (k + 3 * i) % 256]

SeedId(input) == input[1]

(* a rejected candidate f, a draw with equal words, a draw whose matrix is *)
(* not systematic, and an accepted draw                                    *)
Draws ==
  { [f3 |-> 0, mult |-> 1, md |-> 67], [f3 |-> 1, mult |-> 1, md |-> 61],
    [f3 |-> 1, mult |-> 4, md |-> 67], [f3 |-> 2, mult |-> 5, md |-> 67] }

Oracles == [0..(NumSeeds - 1) -> Draws]

DrawBytes(d, k, n) ==
  [i \in 0..(n - 1) |->
     IF i < permIndex THEN (16 * k + i + 1) % 256
     ELSE IF i < irrPolys
       THEN (IF (i - permIndex) % 2 = 0
               THEN (d.mult * ((i - permIndex) \div 4) + 5) % d.md
               ELSE 0)
     ELSE IF i < seedIndex
       THEN (IF (i - irrPolys) % 2 = 1 THEN 255
             ELSE 192 + (IF (i - irrPolys) \div 2 = sysT - 1 THEN d.f3 ELSE 0))
     ELSE EntropyOf((k + 1) % NumSeeds, seedSize)[i - seedIndex]]

(* mceliece.go:321-332: the output is a function of the input alone *)
shake256(output, input) ==
  The({ DrawBytes(xof[k], k, Len0(output)) : k \in {SeedId(input)} })

(* kem/mceliece ControlBitsFromPermutation(out, pi, w, n): overwrites the  *)
(* first ((2w-1)*n/2 + 7)/8 bytes of out by a function of pi               *)
ControlBitsFromPermutation(out, pi, w, n) ==
  [b \in DOMAIN out |->
     IF b < ((((2 * w - 1) * n) \div 2) + 7) \div 8
       THEN pi[b % n] * 4 + (pi[(b + 1) % n] % 4)
       ELSE out[b]]

SeedLengthAtLeast(seed) == Len0(seed) >= seedSize

(* mceliece.go:445 *)
SeedLengthOk(seed) == Len0(seed) = seedSize

InitialSeedKept(entropy) ==
  IF run.calls = 0
    THEN [i \in 0..seedSize |-> IF i = 0 THEN 64 ELSE entropy[i - 1]]
    ELSE run.seed

(* mceliece.go:54 and 63 *)
InitialSeed(entropy) == [i \in 0..seedSize |-> IF i = 0 THEN 64 ELSE entropy[i - 1]]

RecordSeedOnce(sk, seed, attempts) ==
  IF attempts = 0 THEN CopyAt(sk, 0, Slice(seed, 1, seedSize)) ELSE sk

(* mceliece.go:72, in iteration number attempts + 1 *)
RecordSeed(sk, seed, attempts) == CopyAt(sk, 0, Slice(seed, 1, seedSize))

(* mceliece.go:75-79 *)
LoadCandidate(r) == [i \in 0..(sysT - 1) |-> loadGf(Slice(r, irrPolys + 2 * i, 2))]

(* mceliece.go:85-89 *)
StoreIrr(sk, irr) ==
  [b \in DOMAIN sk |->
     IF b >= 40 /\ b < 40 + irrBytes THEN storeGf(irr[(b - 40) \div 2])[(b - 40) % 2]
     ELSE sk[b]]

(* mceliece.go:92-96 *)
LoadPerm(r) == [i \in 0..(2^gfBits - 1) |-> load4(Slice(r, permIndex + 4 * i, 4))]

(* mceliece.go:102-104 *)
FinishPrivateKey(sk0, pi, r) ==
  The({ CopyAt(CopyAt(sk1, sBase, Slice(r, 0, sysN \div 8)), 32, store8(pivots)) :
        sk1 \in {The({ CopyAt(sk0, 32 + 8 + irrBytes, tl) :
                       tl \in {ControlBitsFromPermutation(
                                 Slice(sk0, 32 + 8 + irrBytes,
                                       PrivateKeySize - (32 + 8 + irrBytes)),
                                 pi, gfBits, 2^gfBits)} })} })

RunIdle == UNCHANGED <<xof, unm, mp, zm, pg, mode>>

HasEqualEntries(a) == Cardinality({a[i] : i \in DOMAIN a}) < Len0(a)

FirstResult ==
  [entropy |-> run.entropy, pk |-> run.pk, sk |-> run.sk,
   attempts |-> run.attempts, fed |-> run.fed, rejected |-> run.rejected]

(* mceliece.go:444-449 and 49-63: the first call takes a seed of any       *)
(* length; a second call, made after the first returned, takes the same    *)
(* seed again or the seed the first call's last attempt was fed            *)
DeriveKeyPair ==
  /\ mode = "derive"
  /\ \/ run.pc = "idle" /\ run.calls = 0
     \/ run.pc = "Success" /\ run.calls = 1
  /\ \E entropy \in IF run.calls = 0
                     THEN {EntropyOf(0, n) : n \in (seedSize - 1)..(seedSize + 1)}
                     ELSE {run.entropy, Slice(run.fed, 1, seedSize)} :
       run' = IF ~SeedLengthOk(entropy)
                THEN [run EXCEPT !.pc = "panic", !.calls = @ + 1, !.entropy = entropy]
                ELSE [pc |-> "ExpandSeed", calls |-> run.calls + 1, entropy |-> entropy,
                      seed |-> InitialSeed(entropy), r |-> Zeros(rLen),
                      f |-> Zeros(sysT), irr |-> Zeros(sysT),
                      perm |-> Zeros(2^gfBits), pi |-> Zeros(2^gfBits),
                      pk |-> Zeros(PublicKeySize), sk |-> Zeros(PrivateKeySize),
                      attempts |-> 0, fed |-> <<>>, rejected |-> <<>>,
                      first |-> IF run.calls = 0 THEN <<>> ELSE FirstResult]
  /\ RunIdle

(* mceliece.go:66-73 *)
ExpandSeed ==
  /\ mode = "derive" /\ run.pc = "ExpandSeed" /\ run.attempts < MaxAttempts
  /\ \E r \in {shake256(run.r, run.seed)} :
       run' = [run EXCEPT !.pc = "ExtractCandidate",
                          !.r = r,
                          !.sk = RecordSeed(run.sk, run.seed, run.attempts),
                          !.seed = CopyAt(run.seed, 1, Slice(r, Len0(r) - 32, 32)),
                          !.fed = run.seed,
                          !.attempts = @ + 1]
  /\ RunIdle

(* mceliece.go:75-79 *)
ExtractCandidate ==
  /\ mode = "derive" /\ run.pc = "ExtractCandidate"
  /\ run' = [run EXCEPT !.pc = "CheckMinimalPolynomial", !.f = LoadCandidate(run.r)]
  /\ RunIdle

(* mceliece.go:81-89 *)
CheckMinimalPolynomial ==
  /\ mode = "derive" /\ run.pc = "CheckMinimalPolynomial"
  /\ \E res \in {minimalPolynomial(run.irr, run.f)} :
       run' = IF ~res.ok
                THEN [run EXCEPT !.pc = "ExpandSeed", !.irr = res.out,
                                 !.rejected = Append(@, "polynomial")]
                ELSE [run EXCEPT !.pc = "ExtractPermutation", !.irr = res.out,
                                 !.sk = StoreIrr(run.sk, res.out)]
  /\ RunIdle

(* mceliece.go:92-96 *)
ExtractPermutation ==
  /\ mode = "derive" /\ run.pc = "ExtractPermutation"
  /\ run' = [run EXCEPT !.pc = "BuildPublicKey", !.perm = LoadPerm(run.r)]
  /\ RunIdle

(* mceliece.go:98-100 *)
BuildPublicKey ==
  /\ mode = "derive" /\ run.pc = "BuildPublicKey"
  /\ \E res \in {pkGen(run.pk, Slice(run.sk, 40, irrBytes), run.perm, run.pi)} :
       run' = IF ~res.ok
                THEN [run EXCEPT !.pc = "ExpandSeed", !.pk = res.pk, !.pi = res.pi,
                                 !.rejected = Append(@, IF HasEqualEntries(run.perm)
                                                          THEN "duplicate"
                                                          ELSE "notsystematic")]
                ELSE [run EXCEPT !.pc = "Finish", !.pk = res.pk, !.pi = res.pi]
  /\ RunIdle

(* mceliece.go:102-105 *)
Finish ==
  /\ mode = "derive" /\ run.pc = "Finish"
  /\ run' = [run EXCEPT !.pc = "Success", !.sk = FinishPrivateKey(run.sk, run.pi, run.r)]
  /\ RunIdle

BufOf(n, c) == [i \in 0..(n - 1) |-> (c + i) % 256]

(* mceliece.go:463-470 *)
UnmarshalBinaryPublicKey(buf) ==
  IF Len0(buf) # PublicKeySize
    THEN [key |-> NilKey, err |-> "ErrPubKeySize"]
    ELSE [key |-> [nil |-> FALSE, bytes |-> CopyAt(Zeros(PublicKeySize), 0, buf)],
          err |-> "nil"]

(* mceliece.go:472-479: the key returned is &PrivateKey{} *)
UnmarshalBinaryPrivateKey(buf) ==
  IF Len0(buf) # PrivateKeySize
    THEN [key |-> NilKey, err |-> "ErrPrivKeySize"]
    ELSE [key |-> [nil |-> FALSE, bytes |-> Zeros(PrivateKeySize)], err |-> "nil"]

UnmarshalPublic ==
  /\ mode = "decode" /\ unm.pc = "idle"
  /\ \E n \in (PublicKeySize - 1)..(PublicKeySize + 1), c \in 0..MaxFill :
       \E buf \in {BufOf(n, c)} :
         \E res \in {UnmarshalBinaryPublicKey(buf)} :
           unm' = [pc |-> "done", what |-> "public", buf |-> buf,
                   key |-> res.key, err |-> res.err, out |-> <<>>]
  /\ UNCHANGED <<run, xof, mp, zm, pg, mode>>

UnmarshalPrivate ==
  /\ mode = "decode" /\ unm.pc = "idle"
  /\ \E n \in (PrivateKeySize - 1)..(PrivateKeySize + 1), c \in 0..MaxFill :
       \E buf \in {BufOf(n, c)} :
         \E res \in {UnmarshalBinaryPrivateKey(buf)} :
           unm' = [pc |-> "done", what |-> "private", buf |-> buf,
                   key |-> res.key, err |-> res.err, out |-> <<>>]
  /\ UNCHANGED <<run, xof, mp, zm, pg, mode>>

(* mceliece.go:428-432 *)
PublicKeyMarshalBinary(key) == CopyAt(Zeros(PublicKeySize), 0, key.bytes)

(* mceliece.go:402-406 *)
PrivateKeyMarshalBinary(key) == CopyAt(Zeros(PrivateKeySize), 0, key.bytes)

(* mceliece.go:428-432, called on the key a decoder returned *)
MarshalPublic ==
  /\ mode = "decode" /\ unm.pc = "done" /\ unm.what = "public" /\ ~unm.key.nil
  /\ \E ret \in {PublicKeyMarshalBinary(unm.key)} :
       unm' = [unm EXCEPT !.pc = "marshalled", !.out = ret]
  /\ UNCHANGED <<run, xof, mp, zm, pg, mode>>

(* mceliece.go:402-406, called on the key a decoder returned *)
MarshalPrivate ==
  /\ mode = "decode" /\ unm.pc = "done" /\ unm.what = "private" /\ ~unm.key.nil
  /\ \E ret \in {PrivateKeyMarshalBinary(unm.key)} :
       unm' = [unm EXCEPT !.pc = "marshalled", !.out = ret]
  /\ UNCHANGED <<run, xof, mp, zm, pg, mode>>

Init ==
  /\ mode \in {"derive", "decode"}
  /\ xof \in (IF mode = "derive" THEN Oracles ELSE {<<>>})
  /\ run = IdleRun /\ unm = IdleUnm /\ mp = IdleMp /\ zm = IdleZm /\ pg = IdlePg

Next ==
  \/ DeriveKeyPair \/ ExpandSeed \/ ExtractCandidate \/ CheckMinimalPolynomial
  \/ ExtractPermutation \/ BuildPublicKey \/ Finish
  \/ UnmarshalPublic \/ UnmarshalPrivate \/ MarshalPublic \/ MarshalPrivate

Spec == Init /\ [][Next]_vars

(***************************************************************************)
(* Reference notions for the minimal polynomial.                           *)
(***************************************************************************)
XorSum(F, i, n) == Fold(LAMBDA sum, k : Add(sum, F[k]), 0, i, n)

MulProd(F, i, n) == Fold(LAMBDA prod, k : Mul(prod, F[k]), 1, i, n)

Bijections(n) ==
  {p \in [0..(n - 1) -> 0..(n - 1)] :
     \A i, j \in 0..(n - 1) : p[i] = p[j] => i = j}

PermsT == Bijections(sysT)

(* determinant (characteristic 2) of the rows 0..sysT-1 of mat: the sum   *)
(* of the permutation products; bit b of a sum in characteristic 2 is the  *)
(* parity of the number of terms that have bit b                           *)
Det(mat) ==
  The({ Fold(LAMBDA sum, b :
               sum + (Cardinality({p \in PermsT : Bit(term[p], b) = 1}) % 2) * 2^b,
             0, 0, gfBits) :
        term \in {[p \in PermsT |->
                     MulProd([i \in 0..(sysT - 1) |-> mat[i][p[i]]], 0, sysT)]} })

(* out[0]*1 + out[1]*f + ... + out[sysT-1]*f^(sysT-1), coordinate j *)
Combination(mat, out, j) ==
  XorSum([i \in 0..(sysT - 1) |-> Mul(out[i], mat[i][j])], 0, sysT)

C10_IsZeroMaskAllOnes ==
  zm.pc = "done" => zm.mask = (IF zm.a = 0 THEN 2^16 - 1 ELSE 0)

(***************************************************************************)
(* Reference notions for the public-key builder, independent of the        *)
(* eliminations above: rows as integers (column c at bit c), rank by an    *)
(* XOR basis, evaluation of g as a sum of monomials.                       *)
(***************************************************************************)
WidthOf(builder) == IF builder = "byte" THEN 8 ELSE WordBits

CodeLengthOf(builder) == IF builder = "byte" THEN sysN ELSE sysNVec

LeftBitsOf(row, width) ==
  LET RECURSIVE Sum(_)
      Sum(c) == IF width * c >= pkNRows THEN 0
                ELSE (row[c] % 2^(pkNRows - width * c)) * 2^(width * c) + Sum(c + 1)
  IN Sum(0)

LeftRows(mat, width) == [r \in 0..(pkNRows - 1) |-> LeftBitsOf(mat[r], width)]

(* one bit of v, from the highest down: v is reduced by the basis vector  *)
(* leading at that bit, or becomes the basis vector leading there          *)
InsertStep(st, b) ==
  IF st.done \/ Bit(st.v, b) = 0 THEN st
  ELSE IF st.basis[b] = 0
    THEN [basis |-> [st.basis EXCEPT ![b] = st.v], v |-> st.v, done |-> TRUE]
    ELSE [st EXCEPT !.v = XorWord(st.v, st.basis[b])]

Insert(basis, v, b) ==
  Fold(LAMBDA st, t : InsertStep(st, b - t),
       [basis |-> basis, v |-> v, done |-> FALSE], 0, b + 1).basis

Span(rows, r, basis) ==
  Fold(LAMBDA b2, r2 : Insert(b2, rows[r2], pkNRows - 1), basis, r, pkNRows)

LeftInvertible(mat, width) ==
  \E rows \in {LeftRows(mat, width)} :
    \E basis \in {Span(rows, 0, Zeros(pkNRows))} :
      \A b \in 0..(pkNRows - 1) : basis[b] # 0

IsIdentityLeft(mat, width) ==
  \A r \in 0..(pkNRows - 1) : LeftBitsOf(mat[r], width) = 2^r

IsUnitUpperLeft(mat, width) ==
  \A r \in 0..(pkNRows - 1) :
    \E v \in {LeftBitsOf(mat[r], width)} : Bit(v, r) = 1 /\ v % 2^r = 0

XorRows(sel, rows, c, acc) ==
  Fold(LAMBDA a, c2 : IF Bit(sel, c2) = 1 THEN XorWord(a, rows[c2]) ELSE a,
       acc, c, pkNRows)

OpsMapToIdentity(ops, h) ==
  \E rows \in {LeftRows(h, WordBits)}, sels \in {LeftRows(ops, WordBits)} :
    \A r \in 0..(pkNRows - 1) : XorRows(sels[r], rows, 0, 0) = 2^r

EliminationPassed ==
  mode = "pk" /\ (pg.pc \in {"eliminated", "forward", "back", "refilled"}
                  \/ (pg.pc = "done" /\ pg.ok))

EliminationFailed == mode = "pk" /\ pg.pc = "done" /\ pg.why = "notsystematic"

NoPublicKey == pg.pk = Zeros(PkBytesOf(pg.builder))

(* C4 as stated: pkGen passes the elimination exactly when the left        *)
(* pkNRows x pkNRows block is invertible over GF(2), the matrix the        *)
(* elimination (mceliece.go:260-297, pk_gen.go:168-197) leaves has the      *)
(* identity in its left pkNRows columns, and a singular left block gives   *)
(* false and no public key.                                                *)
C4_LeftBlockIsIdentity ==
  /\ (EliminationPassed \/ EliminationFailed)
       => (EliminationPassed <=> LeftInvertible(pg.h, WidthOf(pg.builder)))
  /\ (mode = "pk" /\ pg.pc \in {"eliminated", "forward"})
       => IsIdentityLeft(pg.mat, WidthOf(pg.builder))
  /\ EliminationFailed => NoPublicKey

(* C4, amended: pkGen passes the elimination exactly when the left block   *)
(* is invertible over GF(2) and a singular left block gives false and no   *)
(* public key; the byte-oriented elimination leaves the identity in the    *)
(* left pkNRows columns, the bitsliced forward elimination leaves them     *)
(* unit upper triangular and the recorded row operations, after the        *)
(* back-substitution, map the left block to the identity.                  *)
C4_SystematicForm ==
  /\ (EliminationPassed \/ EliminationFailed)
       => (EliminationPassed <=> LeftInvertible(pg.h, WidthOf(pg.builder)))
  /\ (mode = "pk" /\ pg.pc = "eliminated") => IsIdentityLeft(pg.mat, 8)
  /\ (mode = "pk" /\ pg.pc = "forward") => IsUnitUpperLeft(pg.mat, WordBits)
  /\ (mode = "pk" /\ pg.builder = "vec" /\ EliminationPassed /\ pg.pc # "forward")
       => OpsMapToIdentity(pg.ops, pg.h)
  /\ EliminationFailed => NoPublicKey

C4_Witness ==
  /\ mode = "pk" /\ pg.pc = "back"
  /\ ~IsIdentityLeft(pg.mat, WordBits)
  /\ OpsMapToIdentity(pg.ops, pg.h)

HasEqualWords(perm) ==
  \E i, j \in DOMAIN perm : i < j /\ perm[i] = perm[j]

IsBijection(pi) == {pi[i] : i \in DOMAIN pi} = 0..(2^gfBits - 1)

(* C5: pkGen rejects the draw exactly when two of the 2^m words are equal, *)
(* and on every accepted draw pi is a bijection on 0..2^m-1 and the        *)
(* support points bitRev(pi[i]) are pairwise distinct.                     *)
C5_PermutationValid ==
  (mode = "pk" /\ pg.pc # "start") =>
    /\ (pg.why = "duplicate") <=> HasEqualWords(pg.perm)
    /\ (pg.why # "duplicate") =>
         /\ IsBijection(pg.pi)
         /\ \E l \in {Support(pg.pi, CodeLengthOf(pg.builder))} :
              \A i, j \in DOMAIN l : i # j => l[i] # l[j]

C5_Witness == mode = "pk" /\ pg.pc = "sorted" /\ pg.pi[0] # 0 /\ IsBijection(pg.pi)

(* the sysNVec-column parity-check matrix of the bitsliced builder, in the *)
(* byte layout of the byte-oriented builder                                *)
LogicalBytes(mat) ==
  [r \in DOMAIN mat |->
     [c \in 0..(nblocksH * WordBytes - 1) |->
        Fold(LAMBDA b, q :
               b + (IF 8 * c + q < sysNVec
                      THEN Bit(mat[r][(8 * c + q) \div WordBits], (8 * c + q) % WordBits)
                      ELSE 0) * 2^q,
             0, 0, 8)]]

FullMatrixVec(list) ==
  The({ VecFillBlocks(ZeroMatrixVec, prod, consts, 0, nblocksH) :
        prod \in {VecProd(list)}, consts \in {VecConsts(list)} })

RightBlockVec(mat) ==
  [b \in 0..(PublicKeySizeVec - 1) |->
     mat[b \div pkRowBytesVec][(pkNRows \div 8) + (b % pkRowBytesVec)]]

(* C7: on every parity-check matrix the bitsliced two-phase elimination    *)
(* fails exactly when the byte-oriented Gauss-Jordan elimination fails on  *)
(* the same matrix, and otherwise serializes the same right-hand block.    *)
C7_BuildersEquivalent ==
  (mode = "pk" /\ pg.builder = "vec" /\ pg.pc = "done" /\ pg.why # "duplicate") =>
    \E ref \in {GaussJordan(LogicalBytes(FullMatrixVec(pg.list)), 0)} :
      /\ pg.ok <=> ref.ok
      /\ pg.ok => pg.pk = RightBlockVec(ref.mat)

C7_Witness ==
  mode = "pk" /\ pg.builder = "vec" /\ pg.pc = "done" /\ pg.ok /\ ~NoPublicKey

RECURSIVE PowGf(_, _)
PowGf(a, n) == IF n = 0 THEN 1 ELSE Mul(a, PowGf(a, n - 1))

RefEval(g, a) == XorSum([i \in 0..sysT |-> Mul(g[i], PowGf(a, i))], 0, sysT + 1)

RootIndexes ==
  IF pg.why = "duplicate" \/ pg.pc \in {"idle", "start"} THEN {}
  ELSE The({ {j \in DOMAIN l : RefEval(g, l[j]) = 0} :
             l \in {Support(pg.pi, CodeLengthOf(pg.builder))},
             g \in {LoadG(pg.irr)} })

ColumnIsZero(mat, width, j) ==
  \A r \in DOMAIN mat : Bit(mat[r][j \div width], j % width) = 0

(* C9 as stated: if g is zero at any of the support points, pkGen returns  *)
(* false and produces no public key.                                       *)
C9_RootRejected ==
  (mode = "pk" /\ pg.pc = "done" /\ RootIndexes # {}) => (~pg.ok /\ NoPublicKey)

(* C9, amended: a support point at which g is zero gets the inverse 0 and  *)
(* an all-zero matrix column; pkGen returns false and produces no public   *)
(* key when that column is one of the first pkNRows (a pivot column).      *)
C9_PivotRootRejected ==
  /\ (mode = "pk" /\ pg.pc = "filled") =>
       \A j \in RootIndexes :
         j < pkNRows => ColumnIsZero(pg.mat, WidthOf(pg.builder), j)
  /\ (mode = "pk" /\ pg.pc = "filled" /\ pg.builder = "byte") =>
       \A j \in RootIndexes : ColumnIsZero(pg.mat, 8, j)
  /\ (mode = "pk" /\ pg.pc = "done" /\ \E j \in RootIndexes : j < pkNRows)
       => (~pg.ok /\ pg.why = "notsystematic" /\ NoPublicKey)

C9_Witness ==
  /\ mode = "pk" /\ pg.pc = "done" /\ pg.builder = "byte"
  /\ \E j \in RootIndexes : j < pkNRows
  /\ ~pg.ok

(***************************************************************************)
(* Claims on deriveKeyPair and the entry points (specification Spec).      *)
(***************************************************************************)
SecondReturned == mode = "derive" /\ run.calls = 2 /\ run.pc = "Success"

SameKeys == run.pk = run.first.pk /\ run.sk = run.first.sk

C2_RetryConvergence ==
  (SecondReturned /\ run.entropy = Slice(run.first.fed, 1, seedSize))
    => (run.attempts = 1 /\ SameKeys)

C2_Witness ==
  /\ SecondReturned /\ run.entropy = Slice(run.first.fed, 1, seedSize)
  /\ Len(run.first.rejected) >= 2
  /\ run.first.rejected[1] # run.first.rejected[2]
  /\ run.entropy # run.first.entropy

(* C3: deriveKeyPair returns only from an iteration whose three checks     *)
(* succeeded, and every private-key region holds that iteration's value at *)
(* its fixed offset: seed fed to the hash, pivot mask, irreducible         *)
(* polynomial, control bits of pi, first sysN/8 bytes of the expansion;    *)
(* the five regions are disjoint and cover the private key.                *)
C3_NoPartialKey ==
  (mode = "derive" /\ run.pc = "Success") =>
    \E r \in {shake256(Zeros(rLen), run.fed)} :
    \E res \in {minimalPolynomial(Zeros(sysT), LoadCandidate(r))}, perm \in {LoadPerm(r)} :
    \E buf \in {UInt64Sort(PermKeys(perm))},
       gen \in {pkGen(Zeros(PublicKeySize), IrrOf(res.out), perm, Zeros(2^gfBits))} :
      /\ res.ok /\ ~HasDuplicate(buf) /\ gen.ok
      /\ run.pk = gen.pk
      /\ Len0(run.sk) = PrivateKeySize
      /\ 32 + 8 + irrBytes + condBytes + (sysN \div 8) = PrivateKeySize
      /\ Slice(run.sk, 0, 32) = Slice(run.fed, 1, 32)
      /\ Slice(run.sk, 32, 8) = [j \in 0..7 |-> IF j < 4 THEN 255 ELSE 0]
      /\ Slice(run.sk, 32 + 8, irrBytes) = IrrOf(res.out)
      /\ Slice(run.sk, 32 + 8 + irrBytes, condBytes)
           = ControlBitsFromPermutation(Zeros(condBytes), gen.pi, gfBits, 2^gfBits)
      /\ Slice(run.sk, 32 + 8 + irrBytes + condBytes, sysN \div 8) = Slice(r, 0, sysN \div 8)

C3_Witness ==
  /\ mode = "derive" /\ run.pc = "Success" /\ run.calls = 1
  /\ \E i \in DOMAIN run.rejected : run.rejected[i] = "notsystematic"

(* C6: DeriveKeyPair on a seed whose length is not seedSize rejects before *)
(* any seed expansion or attempt, and the two decoders return the size     *)
(* error and no key on a buffer of the wrong length.                       *)
C6_ContractViolations ==
  /\ (mode = "derive" /\ run.calls >= 1 /\ Len0(run.entropy) # seedSize)
       => (run.pc = "panic" /\ run.attempts = 0 /\ run.fed = <<>>
           /\ run.pk = <<>> /\ run.sk = <<>>)
  /\ (mode = "derive" /\ run.pc = "panic") => Len0(run.entropy) # seedSize
  /\ (unm.pc = "done" /\ unm.what = "public" /\ Len0(unm.buf) # PublicKeySize)
       => (unm.err = "ErrPubKeySize" /\ unm.key.nil)
  /\ (unm.pc = "done" /\ unm.what = "private" /\ Len0(unm.buf) # PrivateKeySize)
       => (unm.err = "ErrPrivKeySize" /\ unm.key.nil)

C6_Witness ==
  mode = "derive" /\ run.pc = "panic" /\ Len0(run.entropy) = seedSize + 1


(* C11: a private key decoded from a buffer of exactly PrivateKeySize      *)
(* bytes marshals back to that buffer, and a public key decoded from a     *)
(* buffer of exactly PublicKeySize bytes marshals back to that buffer.     *)
C11_MarshalRoundTrip ==
  /\ (unm.pc = "marshalled" /\ unm.what = "private") => unm.out = unm.buf
  /\ (unm.pc = "marshalled" /\ unm.what = "public") => unm.out = unm.buf

(* The public-key half of the round trip on its own. *)
PublicKeyRoundTrip ==
  (unm.pc = "marshalled" /\ unm.what = "public")
    => (Len0(unm.buf) = PublicKeySize /\ unm.err = "nil" /\ unm.out = unm.buf)

(* What the private-key decoder's result marshals to: zeros, whatever the  *)
(* buffer held.                                                            *)
PrivateKeyMarshalsToZeros ==
  (unm.pc = "marshalled" /\ unm.what = "private")
    => (Len0(unm.buf) = PrivateKeySize /\ unm.err = "nil"
        /\ unm.out = Zeros(PrivateKeySize))

=============================================================================
